---- MODULE Spec2Model ----
(***************************************************************************)
(* A model of src/mutant/src/tasks/vqa_yn.py: the training loop of         *)
(* VQA.train, the prediction loop of VQA.predict / VQA.evaluate, the       *)
(* checkpoint operations VQA.save / VQA.load, and the test-mode dispatch   *)
(* of the entry point.                                                     *)
(*                                                                         *)
(* The network, the optimizer, the data loaders and the evaluator are      *)
(* external: a fixed function stands for the network's forward pass, an    *)
(* optimizer step either leaves the parameters as they are or moves them   *)
(* to new values, target tensors arrive with any of a few shapes, and the  *)
(* evaluator's accuracy is drawn from 0..MaxScore (a score s stands for    *)
(* the accuracy s / MaxScore).                                             *)
(***************************************************************************)
EXTENDS Integers, Sequences, FiniteSets, TLC

(* ------------------------------ bounds --------------------------------- *)
MaxEpochs == 3
\* largest args.epochs
MaxTrainLen == 2
\* largest number of batches of the training loader
MaxValN == 2
\* largest number of questions of a DataTuple given to predict
MaxBs == 2
\* largest batch size of a loader
MaxScore == 2
\* the evaluator's accuracies are 0..MaxScore
MaxLogit == 1
\* logits are 0..MaxLogit
NumAnswers == 2
\* answer classes of the model (VQAModel(3129) in the source)
MaxParam == 2
\* parameter values are 0..MaxParam
MaxNops == 2
\* args.nops is in 0..MaxNops

None == "None"

(* ------------------------------ state ---------------------------------- *)
VARIABLES
  pc,             \* position of the running routine
  err,            \* the exception that ended the run, or None
  epochs,         \* args.epochs
  validConfigured,\* self.valid_tuple is not None
  trainLen,       \* len(loader) of the training DataTuple
  output,         \* self.output
  epoch, i,       \* loop variables of VQA.train
  training,       \* self.model.training (train / inference mode)
  params,         \* self.model.state_dict()
  best_valid, valid_score,
  shapes,         \* shapes of logits and targets of the batch in flight
  fs,             \* checkpoint files: path -> stored parameters
  logBlocks,      \* number of blocks appended to <output>/log.log
  ret,            \* value returned by VQA.train
  events,         \* history: steps, evaluation passes, saves, log appends
  scores,         \* history: validation score of each finished epoch
  epochParams,    \* history: parameters at the end of each epoch's batches
  lastFwd,        \* history: kind and mode of the latest forward pass
  caller,         \* who called VQA.predict
  ploader,        \* batches of question ids of the DataTuple given to predict
  dump,           \* dump argument of VQA.predict
  quesid2ans, bi, num_batches,
  seenLogits,     \* history: answer logits of each question of this pass
  dumped,         \* files written by evaluator.dump_result
  pret,           \* value returned by VQA.predict
  test, nops, dumpFlag, data, \* args.test, args.nops, args.dump, args.data
  branch, calls, fi, ni,      \* entry point: branch taken, calls made, loops
  snap, lastOp    \* history of save / load calls

trainVars == <<epochs, validConfigured, trainLen, epoch, i, best_valid,
               valid_score, shapes, logBlocks, ret, events, scores, epochParams>>
predVars == <<caller, ploader, dump, quesid2ans, bi, num_batches, seenLogits,
              dumped, pret>>
mainVars == <<test, nops, dumpFlag, data, branch, calls, fi, ni>>
ckptVars == <<snap, lastOp>>
vars == <<pc, err, output, training, params, fs, lastFwd,
          trainVars, predVars, mainVars, ckptVars>>

(* ------------------------------ helpers -------------------------------- *)
Max(a, b) == IF a >= b THEN a ELSE b

RECURSIVE SeqMax(_)
SeqMax(s) == IF Len(s) = 1 THEN s[1] ELSE Max(s[1], SeqMax(Tail(s)))

\* os.path.join(dir, file) for a relative file name
Join(dir, file) == IF dir = "" THEN file ELSE dir \o "/" \o file

\* "%s.pth" % name
Pth(name) == name \o ".pth"

\* len(DataLoader(dataset of n items, batch_size=bs, drop_last=dl))
LoaderLen(n, bs, dl) == IF dl THEN n \div bs ELSE (n + bs - 1) \div bs

\* the batches of DataLoader(shuffle=False, drop_last=False) over the
\* question ids 1..n
Chunk(n, bs) ==
  [k \in 1..LoaderLen(n, bs, FALSE) |->
     [j \in 1..(IF k * bs <= n THEN bs ELSE n - (k - 1) * bs) |-> (k - 1) * bs + j]]

(* ------------------------- checkpoint files ---------------------------- *)
\* VQA.save: os.path.join(self.output, "%s.pth" % name)
SavePath(name) == Join(output, Pth(name))

\* a load that forgets the extension
LoadPathNoExt(path) == path

\* VQA.load: "%s.pth" % path
LoadPath(path) == Pth(path)

\* a save that leaves an existing file as it is
SaveFileKeepExisting(name) ==
  fs' = IF SavePath(name) \in DOMAIN fs THEN fs
        ELSE (SavePath(name) :> params) @@ fs

\* torch.save(state_dict, SavePath(name)): the file is replaced as a whole
SaveFile(name) == fs' = (SavePath(name) :> params) @@ fs

FileExists(p) == p \in DOMAIN fs

\* the values an optimizer step may leave in the parameters: the old ones, or
\* new ones (value p + 1 stands for the parameters after one more change;
\* a run changes them at most MaxParam times)
StepResults(p) == {p} \cup (IF p < MaxParam THEN {p + 1} ELSE {})

(* ------------------------------ VQA.train ------------------------------ *)
Event(ev, e, b) == [ev |-> ev, e |-> e, b |-> b]

\* sizes of a batch's logits: batch x NumAnswers and batch x NumYnTypes
BatchDim == 2
NumYnTypes == 2

\* a model.train() without effect
ModelTrainNoop(m) == m

\* self.model.train() and self.model.eval(): the mode they leave
ModelTrain(m) == TRUE
ModelEval(m) == FALSE
LogitShape == <<BatchDim, NumAnswers>>
YnLogitShape == <<BatchDim, NumYnTypes>>

\* shapes a target tensor may arrive with: the shape of the logits, the same
\* rank with another size, or another rank
TargetShapes(ls) == {ls, <<ls[1], ls[2] + 1>>, <<ls[1]>>}

\* x.dim()
Dim(shape) == Len(shape)

\* the first assertion alone
AssertsFirstOnly(sh) == Dim(sh.logit) = Dim(sh.target) /\ Dim(sh.target) = 2

\* assert logit.dim() == target.dim() == 2
\* assert yn_type_logit.dim() == yntypetarget.dim() == 2
AssertsPass(sh) ==
  /\ Dim(sh.logit) = Dim(sh.target) /\ Dim(sh.target) = 2
  /\ Dim(sh.yn_logit) = Dim(sh.yn_target) /\ Dim(sh.yn_target) = 2

\* nn.BCEWithLogitsLoss raises ValueError unless target.size() == input.size()
LossAccepts(sh) == sh.logit = sh.target /\ sh.yn_logit = sh.yn_target

\* a comparison that also takes a score equal to the best
ImprovesOrEqual(score, best) == score >= best

\* if valid_score > best_valid
Improves(score, best) == score > best

\* an iteration that skips every other batch
NextIndexSkip(k) == k + 2

\* enumerate(loader): the index of the batch after batch k
NextIndex(k) == k + 1

\* returning the score of the last epoch
ReturnLastScore == valid_score

\* the value VQA.train returns
ReturnValue == best_valid

NoShapes == [logit |-> <<>>, target |-> <<>>, yn_logit |-> <<>>, yn_target |-> <<>>]

Crash(e) == pc' = "crashed" /\ err' = e

\* for epoch in range(args.epochs): quesid2ans = {}; after the loop: save LAST
EpochStart ==
  /\ pc = "epoch_start"
  /\ \/ epoch < epochs /\ pc' = "batch" /\ i' = 0
     \/ epoch >= epochs /\ pc' = "save_last" /\ i' = i
  /\ UNCHANGED <<err, output, training, params, fs, lastFwd, epochs,
                 validConfigured, trainLen, epoch, best_valid, valid_score,
                 shapes, logBlocks, ret, events, scores, epochParams,
                 predVars, mainVars, ckptVars>>

\* one batch from the loader: model.train(); optim.zero_grad(); forward pass
BatchForward ==
  /\ pc = "batch" /\ i < trainLen
  /\ training' = ModelTrain(training)
  /\ lastFwd' = [kind |-> "train", mode |-> training']
  /\ \E t \in TargetShapes(LogitShape), yt \in TargetShapes(YnLogitShape) :
       shapes' = [logit |-> LogitShape, target |-> t,
                  yn_logit |-> YnLogitShape, yn_target |-> yt]
  /\ pc' = "assert"
  /\ UNCHANGED <<err, output, params, fs, epochs, validConfigured, trainLen,
                 epoch, i, best_valid, valid_score, logBlocks, ret, events,
                 scores, epochParams, predVars, mainVars, ckptVars>>

\* the two assertions on the ranks
BatchAssert ==
  /\ pc = "assert"
  /\ \/ AssertsPass(shapes) /\ pc' = "loss" /\ err' = err
     \/ ~AssertsPass(shapes) /\ Crash("AssertionError")
  /\ UNCHANGED <<output, training, params, fs, lastFwd, trainVars, predVars,
                 mainVars, ckptVars>>

\* the two bce_loss calls and the weighted sum
BatchLoss ==
  /\ pc = "loss"
  /\ \/ LossAccepts(shapes) /\ pc' = "step" /\ err' = err
     \/ ~LossAccepts(shapes) /\ Crash("ValueError")
  /\ UNCHANGED <<output, training, params, fs, lastFwd, trainVars, predVars,
                 mainVars, ckptVars>>

\* loss.backward(); clip_grad_norm_; optim.step(); record the predictions
BatchStep ==
  /\ pc = "step"
  /\ \E p \in StepResults(params) : params' = p
  /\ events' = Append(events, Event("step", epoch, i))
  /\ i' = NextIndex(i)
  /\ pc' = "batch"
  /\ UNCHANGED <<err, output, training, fs, lastFwd, epochs, validConfigured,
                 trainLen, epoch, best_valid, valid_score, shapes, logBlocks,
                 ret, scores, epochParams, predVars, mainVars, ckptVars>>

\* the loader is exhausted: log_str = train score; if self.valid_tuple is not
\* None: self.evaluate(eval_tuple), which calls self.predict(eval_tuple, None)
TrainPassDone ==
  /\ pc = "batch" /\ i >= trainLen
  /\ epochParams' = Append(epochParams, params)
  /\ \/ validConfigured /\ pc' = "predict" /\ caller' = "train" /\ dump' = None
        /\ events' = Append(events, Event("eval", epoch, -1))
     \/ ~validConfigured /\ pc' = "log" /\ UNCHANGED <<caller, dump, events>>
  /\ UNCHANGED <<err, output, training, params, fs, lastFwd, epochs,
                 validConfigured, trainLen, epoch, i, best_valid, valid_score,
                 shapes, logBlocks, ret, scores, ploader, quesid2ans, bi,
                 num_batches, seenLogits, dumped, pret, mainVars, ckptVars>>

(* ----------------------------- VQA.predict ----------------------------- *)
Labels == 0..(NumAnswers - 1)

\* dset.label2ans: the answer string of a label index
AnswerNames == <<"yes", "no", "maybe", "unknown", "zero", "one">>
Label2Ans(l) == AnswerNames[l + 1]

\* the network: answer logits of question q under parameters p (a fixed
\* function whose values differ between questions and parameters and
\* sometimes tie)
Forward(p, q) == [l \in Labels |-> ((p + 1) * (q + l)) % (MaxLogit + 1)]

\* logit.max(1): an index of a maximal entry (which one, among equal
\* entries, is left to the device)
ArgmaxSet(v) == {l \in DOMAIN v : \A k \in DOMAIN v : v[l] >= v[k]}

Range(f) == {f[x] : x \in DOMAIN f}

\* a loop that records the first question of the batch only
RecordFirstOnly(map, batch, label) ==
  IF batch = <<>> THEN map
  ELSE [x \in DOMAIN map \cup {Head(batch)} |->
          IF x = Head(batch) THEN AnswerNames[label[x] + 1] ELSE map[x]]

\* for qid, l in zip(ques_id, label): quesid2ans[qid] = label2ans[l]
RECURSIVE Record(_, _, _)
Record(map, batch, label) ==
  IF batch = <<>> THEN map
  ELSE LET q == Head(batch)
           m == [x \in DOMAIN map \cup {q} |->
                   IF x = q THEN Label2Ans(label[q]) ELSE map[x]]
       IN Record(m, Tail(batch), label)

EmptyMap == [x \in {} |-> None]

\* self.model.eval(); quesid2ans = {}; num_batches = 0
PredictStart ==
  /\ pc = "predict"
  /\ training' = ModelEval(training)
  /\ quesid2ans' = EmptyMap
  /\ seenLogits' = EmptyMap
  /\ num_batches' = 0
  /\ bi' = 0
  /\ pc' = "predict_loop"
  /\ UNCHANGED <<err, output, params, fs, lastFwd, trainVars, caller, ploader,
                 dump, dumped, pret, mainVars, ckptVars>>

\* one batch of the loader: forward pass, argmax, answers recorded
PredictBatch ==
  /\ pc = "predict_loop" /\ bi < Len(ploader)
  /\ LET batch == ploader[bi + 1]
         logit == [q \in Range(batch) |-> Forward(params, q)]
     IN /\ lastFwd' = [kind |-> "predict", mode |-> training]
        /\ \E label \in [Range(batch) -> Labels] :
             /\ \A q \in Range(batch) : label[q] \in ArgmaxSet(logit[q])
             /\ quesid2ans' = Record(quesid2ans, batch, label)
        /\ seenLogits' = [q \in DOMAIN seenLogits \cup Range(batch) |->
                            IF q \in Range(batch) THEN logit[q] ELSE seenLogits[q]]
  /\ num_batches' = num_batches + 1
  /\ bi' = bi + 1
  /\ UNCHANGED <<pc, err, output, training, params, fs, trainVars, caller,
                 ploader, dump, dumped, pret, mainVars, ckptVars>>

\* print(yn_type_accuracy / num_batches); the dump; return quesid2ans
PredictEnd ==
  /\ pc = "predict_loop" /\ bi >= Len(ploader)
  /\ \/ /\ num_batches = 0
        /\ Crash("ZeroDivisionError")
        /\ UNCHANGED <<dumped, pret>>
     \/ /\ num_batches # 0
        /\ dumped' = IF dump # None THEN dumped \cup {dump} ELSE dumped
        /\ pret' = quesid2ans
        /\ pc' = IF caller = "train" THEN "evaluate" ELSE "done"
        /\ err' = err
  /\ UNCHANGED <<output, training, params, fs, lastFwd, trainVars, caller,
                 ploader, dump, quesid2ans, bi, num_batches, seenLogits,
                 mainVars, ckptVars>>

(* ----------------------- VQA.train, end of an epoch -------------------- *)
\* valid_score = eval_tuple.evaluator.evaluate(quesid2ans);
\* if valid_score > best_valid: best_valid = valid_score; self.save("BEST")
EpochValid ==
  /\ pc = "evaluate"
  /\ \E s \in 0..MaxScore :
       /\ valid_score' = s
       /\ scores' = Append(scores, s)
       /\ \/ /\ Improves(s, best_valid)
             /\ best_valid' = s
             /\ SaveFile("BEST")
             /\ events' = Append(events, Event("BEST", epoch, -1))
          \/ /\ ~Improves(s, best_valid)
             /\ UNCHANGED <<best_valid, fs, events>>
  /\ pc' = "log"
  /\ quesid2ans' = EmptyMap /\ seenLogits' = EmptyMap /\ pret' = EmptyMap
  /\ bi' = 0 /\ num_batches' = 0
  /\ UNCHANGED <<err, output, training, params, lastFwd, epochs,
                 validConfigured, trainLen, epoch, i, shapes, logBlocks, ret,
                 epochParams, caller, ploader, dump, dumped, mainVars, ckptVars>>

\* print(log_str); append it to <output>/log.log; next epoch
EpochLog ==
  /\ pc = "log"
  /\ logBlocks' = logBlocks + 1
  /\ events' = Append(events, Event("log", epoch, -1))
  /\ epoch' = epoch + 1
  /\ pc' = "epoch_start"
  /\ UNCHANGED <<err, output, training, params, fs, lastFwd, epochs,
                 validConfigured, trainLen, i, best_valid, valid_score, shapes,
                 ret, scores, epochParams, predVars, mainVars, ckptVars>>

\* a train that ends without the final save
SaveLastSkipped ==
  /\ pc = "save_last"
  /\ pc' = "return"
  /\ UNCHANGED <<err, output, training, params, fs, lastFwd, trainVars,
                 predVars, mainVars, ckptVars>>

\* self.save("LAST")
SaveLast ==
  /\ pc = "save_last"
  /\ SaveFile("LAST")
  /\ events' = Append(events, Event("LAST", epoch, -1))
  /\ pc' = "return"
  /\ UNCHANGED <<err, output, training, params, lastFwd, epochs,
                 validConfigured, trainLen, epoch, i, best_valid, valid_score,
                 shapes, logBlocks, ret, scores, epochParams, predVars,
                 mainVars, ckptVars>>

\* return best_valid
TrainReturn ==
  /\ pc = "return"
  /\ ret' = ReturnValue
  /\ pc' = "done"
  /\ UNCHANGED <<err, output, training, params, fs, lastFwd, epochs,
                 validConfigured, trainLen, epoch, i, best_valid, valid_score,
                 shapes, logBlocks, events, scores, epochParams, predVars,
                 mainVars, ckptVars>>

(* ------------------------- specification: train ------------------------ *)
Outputs == {"", "snap"}

MainIdle ==
  /\ test = <<>> /\ nops = 1 /\ dumpFlag = FALSE
  /\ data = "" /\ branch = None /\ calls = <<>> /\ fi = 0 /\ ni = 0

NoOp == [op |-> None, arg |-> None, ok |-> TRUE, before |-> 0]

CkptIdle == snap = EmptyMap /\ lastOp = NoOp

\* the state VQA.train starts in: a constructed VQA (load=True), a model in
\* training mode, no checkpoint of this run on disk
Init ==
  /\ pc = "epoch_start" /\ err = None
  /\ epochs \in 0..MaxEpochs
  /\ validConfigured \in BOOLEAN
  /\ \E n \in 0..MaxTrainLen, bs \in 1..MaxBs : trainLen = LoaderLen(n, bs, TRUE)
  /\ output = "snap"
  /\ epoch = 0 /\ i = 0
  /\ training = TRUE
  /\ params = 0
  /\ best_valid = 0 /\ valid_score = 0
  /\ shapes = NoShapes
  /\ fs = EmptyMap
  /\ logBlocks = 0
  /\ ret = None
  /\ events = <<>> /\ scores = <<>> /\ epochParams = <<>>
  /\ lastFwd = [kind |-> None, mode |-> TRUE]
  /\ caller = None
  /\ \E n \in {0, MaxValN}, bs \in {1, MaxBs} :
       ploader = IF validConfigured THEN Chunk(n, bs) ELSE <<>>
  /\ dump = None
  /\ quesid2ans = EmptyMap /\ seenLogits = EmptyMap /\ pret = EmptyMap
  /\ bi = 0 /\ num_batches = 0
  /\ dumped = {}
  /\ MainIdle /\ CkptIdle

Next ==
  \/ EpochStart
  \/ BatchForward
  \/ BatchAssert
  \/ BatchLoss
  \/ BatchStep
  \/ TrainPassDone
  \/ PredictStart
  \/ PredictBatch
  \/ PredictEnd
  \/ EpochValid
  \/ EpochLog
  \/ SaveLast
  \/ TrainReturn

Spec == Init /\ [][Next]_vars

(* ----------------------- properties of VQA.train ----------------------- *)
EventIdx(ev) == {k \in 1..Len(events) : events[k].ev = ev}
EpochsOf(ev) == {events[k].e : k \in EventIdx(ev)}
StepIdx(e) == {k \in EventIdx("step") : events[k].e = e}

\* the running best before epoch e (epochs count from 0; scores[e + 1] is
\* the validation score of epoch e)
PriorBest(e) == IF e = 0 THEN 0 ELSE SeqMax(SubSeq(scores, 1, e))

ImprovingEpochs == {e \in 0..(Len(scores) - 1) : scores[e + 1] > PriorBest(e)}

\* C1: with validation configured, "BEST" is saved in exactly those epochs
\* whose validation score is strictly greater than the running best (0, then
\* the maximum of the earlier scores), once per such epoch, and in no other.
C1_BestSavedExactlyOnImprovement ==
  validConfigured =>
    /\ EpochsOf("BEST") = ImprovingEpochs
    /\ Cardinality(EventIdx("BEST")) = Cardinality(ImprovingEpochs)

\* a finished run in which a score equal to the running best did not save,
\* a lower score did not save, and a later higher score saved again
C1_Witness ==
  /\ pc = "done" /\ validConfigured
  /\ scores = <<1, 1, 2>>
  /\ EpochsOf("BEST") = {0, 2}

C1_WitnessDrop ==
  /\ pc = "done" /\ validConfigured
  /\ scores = <<2, 1, 2>>
  /\ EpochsOf("BEST") = {0}

\* C2: in every finished epoch each batch index 0..len(loader)-1 is stepped
\* exactly once, in the running epoch the batches before the current one
\* are, and a finished run has taken epochs * len(loader) steps.
C2_OneStepPerBatch ==
  /\ \A e \in 0..(epoch - 1) :
       /\ Cardinality(StepIdx(e)) = trainLen
       /\ {events[k].b : k \in StepIdx(e)} = 0..(trainLen - 1)
  /\ pc \in {"batch", "assert", "loss", "step"} =>
       /\ Cardinality(StepIdx(epoch)) = i
       /\ {events[k].b : k \in StepIdx(epoch)} = 0..(i - 1)
  /\ pc = "done" => Cardinality(EventIdx("step")) = epochs * trainLen

C2_Witness ==
  /\ pc = "done" /\ epochs = MaxEpochs /\ trainLen = MaxTrainLen
  /\ Cardinality(EventIdx("step")) = MaxEpochs * MaxTrainLen

\* C3: train returns the maximum of the validation scores; without a
\* validation DataTuple it runs no evaluation pass, writes no "BEST", fails
\* only on a batch's shapes, and returns 0.
C3_ReturnsBestScore ==
  /\ pc = "done" /\ validConfigured /\ Len(scores) >= 1 => ret = SeqMax(scores)
  /\ pc = "done" /\ Len(scores) = 0 => ret = 0
  /\ ~validConfigured =>
       /\ EventIdx("eval") = {} /\ EventIdx("BEST") = {}
       /\ scores = <<>>
       /\ lastFwd.kind # "predict"
       /\ Join(output, "BEST.pth") \notin DOMAIN fs
       /\ err \in {None, "AssertionError", "ValueError"}

C3_Witness ==
  /\ pc = "done" /\ validConfigured
  /\ scores = <<1, 2, 1>> /\ ret = 2

C3_WitnessNoValidation ==
  /\ pc = "done" /\ ~validConfigured /\ epochs = MaxEpochs /\ trainLen > 0
  /\ ret = 0

\* C4: "LAST" is saved exactly once, as the last thing before train returns
\* (after every step, evaluation pass, "BEST" save and log append), and is
\* not on disk at any earlier point.
C4_LastSavedOnceAtEnd ==
  /\ pc \in {"return", "done"} =>
       /\ Cardinality(EventIdx("LAST")) = 1
       /\ events[Len(events)].ev = "LAST"
       /\ Join(output, "LAST.pth") \in DOMAIN fs
       /\ logBlocks = epochs
       /\ EpochsOf("log") = 0..(epochs - 1)
  /\ pc \notin {"return", "done"} =>
       /\ EventIdx("LAST") = {}
       /\ Join(output, "LAST.pth") \notin DOMAIN fs

C4_Witness ==
  /\ pc = "done" /\ ~validConfigured /\ epochs > 0
  /\ Join(output, "LAST.pth") \in DOMAIN fs

C4_WitnessNoBest ==
  /\ pc = "done" /\ validConfigured /\ epochs > 0
  /\ EventIdx("BEST") = {}
  /\ Join(output, "LAST.pth") \in DOMAIN fs

ShapesEqual ==
  shapes.logit = shapes.target /\ shapes.yn_logit = shapes.yn_target

RanksAllTwo ==
  /\ Len(shapes.logit) = 2 /\ Len(shapes.target) = 2
  /\ Len(shapes.yn_logit) = 2 /\ Len(shapes.yn_target) = 2

\* C7 as stated: a batch whose targets do not have exactly the shapes of
\* the logits never gets past the assertions, so whenever the loss is about
\* to be computed the shapes agree, and a shape mismatch ends the run with
\* an assertion failure.
C7_AssertedExactShapes ==
  /\ pc = "loss" => ShapesEqual
  /\ pc = "crashed" /\ ~ShapesEqual => err = "AssertionError"

\* C7 amended: the assertions require rank 2 of logits and targets and
\* nothing more. A target of another rank ends the run with an assertion
\* failure before the loss is computed; a target of rank 2 with other sizes
\* passes the assertions and is rejected by the loss function. Either way the
\* batch is never stepped.
C7_AssertedRanksOnly ==
  /\ pc = "loss" => RanksAllTwo
  /\ pc = "step" => ShapesEqual
  /\ err = "AssertionError" => pc = "crashed" /\ ~RanksAllTwo
  /\ err = "ValueError" => pc = "crashed" /\ RanksAllTwo /\ ~ShapesEqual
  /\ err \in {"AssertionError", "ValueError"} =>
       \A k \in StepIdx(epoch) : events[k].b # i

\* a batch of equal rank and different sizes has passed the assertions
C7_Witness ==
  /\ pc = "loss" /\ RanksAllTwo /\ ~ShapesEqual

C7_WitnessRejected ==
  /\ pc = "crashed" /\ err = "ValueError" /\ RanksAllTwo /\ ~ShapesEqual
  /\ epoch > 0

\* C9: every forward pass of the training loop runs in training mode and
\* every forward pass of predict in inference mode.
C9_ForwardModes ==
  /\ lastFwd.kind = "train" => lastFwd.mode = TRUE
  /\ lastFwd.kind = "predict" => lastFwd.mode = FALSE
  /\ pc \in {"assert", "loss", "step"} => training = TRUE
  /\ pc = "predict_loop" => training = FALSE

\* the first batch of a later epoch, after a validation pass has run
C9_Witness ==
  /\ pc = "assert" /\ epoch > 0 /\ i = 0 /\ validConfigured
  /\ EventIdx("eval") # {}
  /\ lastFwd = [kind |-> "train", mode |-> TRUE]

BestPath == Join(output, "BEST.pth")
LastPath == Join(output, "LAST.pth")

\* the earliest epoch whose validation score equals the running best
BestEpoch ==
  CHOOSE e \in 0..(Len(scores) - 1) :
    /\ scores[e + 1] = SeqMax(scores)
    /\ \A d \in 0..(e - 1) : scores[d + 1] # SeqMax(scores)

\* C10: once written, BEST holds the parameters of the end of the earliest
\* epoch that reached the running best score; after train returns, LAST
\* holds the parameters left by the final optimizer step, and BEST differs
\* from LAST whenever the parameters moved after the best epoch.
C10_BestAndLastContents ==
  /\ EventIdx("BEST") # {} =>
       /\ BestPath \in DOMAIN fs
       /\ fs[BestPath] = epochParams[BestEpoch + 1]
  /\ pc = "done" =>
       /\ fs[LastPath] = params
       /\ epochs > 0 => fs[LastPath] = epochParams[epochs]
       /\ EventIdx("BEST") # {} /\ epochParams[BestEpoch + 1] # params =>
            fs[BestPath] # fs[LastPath]
  /\ EventIdx("BEST") = {} => BestPath \notin DOMAIN fs

\* BEST was overwritten, the best epoch is not the last one, and the two
\* checkpoints differ
C10_Witness ==
  /\ pc = "done"
  /\ Cardinality(EventIdx("BEST")) >= 2
  /\ BestEpoch < epochs - 1
  /\ fs[BestPath] # fs[LastPath]

(* ------------------------ specification: predict ----------------------- *)
TrainIdle ==
  /\ epochs = 0 /\ validConfigured = FALSE /\ trainLen = 0
  /\ epoch = 0 /\ i = 0 /\ best_valid = 0 /\ valid_score = 0
  /\ shapes = NoShapes /\ logBlocks = 0 /\ ret = None
  /\ events = <<>> /\ scores = <<>> /\ epochParams = <<>>

\* a call of VQA.predict from outside the training loop, on any DataTuple
\* built with shuffle=False, drop_last=False, with or without a dump path
InitPredict ==
  /\ pc = "predict" /\ err = None
  /\ output = "snap"
  /\ training \in BOOLEAN
  /\ params \in 0..MaxParam
  /\ fs = EmptyMap
  /\ lastFwd = [kind |-> None, mode |-> TRUE]
  /\ caller = "test"
  /\ \E n \in 0..MaxValN, bs \in 1..MaxBs : ploader = Chunk(n, bs)
  /\ dump \in {None, Join(output, "test_predict.json")}
  /\ quesid2ans = EmptyMap /\ seenLogits = EmptyMap /\ pret = EmptyMap
  /\ bi = 0 /\ num_batches = 0
  /\ dumped = {}
  /\ TrainIdle /\ MainIdle /\ CkptIdle

NextPredict ==
  \/ PredictStart
  \/ PredictBatch
  \/ PredictEnd

SpecPredict == InitPredict /\ [][NextPredict]_vars

LoaderIds == UNION {Range(ploader[k]) : k \in 1..Len(ploader)}

\* C5: predict without a dump path writes no file, and the mapping it
\* returns has exactly the question ids of the loader as keys, each mapped
\* to the answer string of a label with a maximal answer logit. (It returns
\* unless the loader has no batch: then the division by num_batches fails.)
C5_PredictWithoutDump ==
  dump = None =>
    /\ dumped = {} /\ fs = EmptyMap
    /\ pc = "crashed" => Len(ploader) = 0 /\ err = "ZeroDivisionError"
    /\ pc = "done" =>
         /\ DOMAIN pret = LoaderIds
         /\ \A q \in DOMAIN pret :
              \E l \in Labels :
                /\ pret[q] = AnswerNames[l + 1]
                /\ seenLogits[q] = Forward(params, q)
                /\ \A k \in Labels : seenLogits[q][l] >= seenLogits[q][k]

\* a returned mapping over two batches whose questions got different answers
C5_Witness ==
  /\ pc = "done" /\ dump = None
  /\ Len(ploader) = 2
  /\ DOMAIN pret = {1, 2}
  /\ pret[1] # pret[2]

C5_WitnessDump ==
  /\ pc = "done" /\ dump # None /\ dumped = {dump}

(* ---------------------- VQA.save / VQA.load calls ---------------------- *)
Names == {"X", "Y"}

\* the paths a caller may hand to load: a bare name, or the name under an
\* output directory
LoadArgs == Names \cup {Join(o, n) : o \in Outputs, n \in Names}

\* vqa.save(name)
Save(name) ==
  /\ pc = "ckpt"
  /\ SaveFile(name)
  /\ snap' = (name :> params) @@ snap
  /\ lastOp' = [op |-> "save", arg |-> name, ok |-> TRUE, before |-> params]
  /\ UNCHANGED <<pc, err, output, training, params, lastFwd, trainVars,
                 predVars, mainVars>>

\* the parameters change (an optimizer step, or any other assignment)
Mutate ==
  /\ pc = "ckpt"
  /\ \E p \in (0..MaxParam) \ {params} : params' = p
  /\ lastOp' = [op |-> "mutate", arg |-> None, ok |-> TRUE, before |-> params]
  /\ UNCHANGED <<pc, err, output, training, fs, lastFwd, snap, trainVars,
                 predVars, mainVars>>

\* vqa.load(path): torch.load("%s.pth" % path); model.load_state_dict
Load(path) ==
  /\ pc = "ckpt"
  /\ \/ /\ FileExists(LoadPath(path))
        /\ params' = fs[LoadPath(path)]
        /\ lastOp' = [op |-> "load", arg |-> path, ok |-> TRUE, before |-> params]
        /\ UNCHANGED <<pc, err>>
     \/ /\ ~FileExists(LoadPath(path))
        /\ Crash("FileNotFoundError")
        /\ lastOp' = [op |-> "load", arg |-> path, ok |-> FALSE, before |-> params]
        /\ UNCHANGED params
  /\ UNCHANGED <<output, training, fs, lastFwd, snap, trainVars, predVars,
                 mainVars>>

\* a constructed VQA with any output directory; the current directory may
\* hold a checkpoint file of an earlier run
InitCkpt ==
  /\ pc = "ckpt" /\ err = None
  /\ output \in Outputs
  /\ training = TRUE
  /\ params \in 0..MaxParam
  /\ fs \in {EmptyMap, ("X.pth" :> MaxParam)}
  /\ lastFwd = [kind |-> None, mode |-> TRUE]
  /\ caller = None /\ ploader = <<>> /\ dump = None
  /\ quesid2ans = EmptyMap /\ seenLogits = EmptyMap /\ pret = EmptyMap
  /\ bi = 0 /\ num_batches = 0 /\ dumped = {}
  /\ TrainIdle /\ MainIdle /\ CkptIdle

NextCkpt ==
  \/ \E name \in Names : Save(name)
  \/ Mutate
  \/ \E path \in LoadArgs : Load(path)

SpecCkpt == InitCkpt /\ [][NextCkpt]_vars

\* C8 as stated: after save(name) and any mutation, load(name) with the
\* same name succeeds and leaves the parameters of the snapshot.
C8_RoundTripSameName ==
  lastOp.op = "load" /\ lastOp.arg \in DOMAIN snap =>
    lastOp.ok /\ params = snap[lastOp.arg]

\* C8 amended: after save(name) and any mutation, load of the path
\* <output_dir>/<name> (the bare name only when the output directory is the
\* current directory) succeeds and leaves the parameters of the snapshot.
C8_RoundTripOutputPath ==
  \A name \in DOMAIN snap :
    lastOp.op = "load" /\ lastOp.arg = Join(output, name) =>
      lastOp.ok /\ params = snap[name]

\* a load from a real output directory that brought back a snapshot the
\* parameters had moved away from
C8_Witness ==
  /\ output = "snap" /\ "X" \in DOMAIN snap
  /\ lastOp.op = "load" /\ lastOp.arg = "snap/X" /\ lastOp.ok
  /\ lastOp.before # params
  /\ params = snap["X"]

\* the same with the current directory as the output directory
C8_WitnessCwd ==
  /\ output = "" /\ "X" \in DOMAIN snap
  /\ lastOp.op = "load" /\ lastOp.arg = "X" /\ lastOp.ok
  /\ lastOp.before # params
  /\ params = snap["X"]

(* ----------------------- entry point, test mode ------------------------ *)
Test == <<"t", "e", "s", "t">>
Val == <<"v", "a", "l">>
Minival == <<"m", "i", "n", "i", "v", "a", "l">>

\* sub in s, for strings as sequences of characters
Contains(sub, s) ==
  \E k \in 1..(Len(s) - Len(sub) + 1) : SubSeq(s, k, k + Len(sub) - 1) = sub

\* the sweep of branch (b): for data in [...]: for nops in range(2, 6)
SweepFolders == <<"varlenlol", "varlencwl">>
SweepNopsFirst == 2
SweepNopsStop == 6

\* the folders of branch (c)
VariantFolders == <<"flipped_lol", "ordered_lol", "flipped_cwl", "ordered_cwl">>

\* an if / elif chain that tries the sweep before the test split
TestBranchSweepFirst ==
  IF nops > 1 /\ Contains(Val, test) /\ ~dumpFlag THEN "b"
  ELSE IF Contains(Test, test) THEN "a"
  ELSE IF Contains(Val, test) /\ ~dumpFlag /\ nops = 1 THEN "c"
  ELSE IF Contains(Val, test) /\ dumpFlag THEN "d"
  ELSE "assert"

\* the if / elif chain on args.test, args.nops and args.dump
TestBranch ==
  IF Contains(Test, test) THEN "a"
  ELSE IF nops > 1 /\ Contains(Val, test) /\ ~dumpFlag THEN "b"
  ELSE IF Contains(Val, test) /\ ~dumpFlag /\ nops = 1 THEN "c"
  ELSE IF Contains(Val, test) /\ dumpFlag THEN "d"
  ELSE "assert"

Call(fn, split, folder, n, d) ==
  [fn |-> fn, split |-> split, folder |-> folder, nops |-> n, dump |-> d]

\* vqa = VQA(load=False); args.fast = args.tiny = False; the chain is decided
Dispatch ==
  /\ pc = "main"
  /\ branch' = TestBranch
  /\ pc' = "run"
  /\ UNCHANGED <<err, output, training, params, fs, lastFwd, trainVars,
                 predVars, test, nops, dumpFlag, data, calls, fi, ni, ckptVars>>

\* (a) vqa.predict on the named split, dumped to <output>/test_predict.json
RunTest ==
  /\ pc = "run" /\ branch = "a"
  /\ calls' = Append(calls, Call("predict", test, data, None,
                                 Join(output, "test_predict.json")))
  /\ pc' = "done"
  /\ UNCHANGED <<err, output, training, params, fs, lastFwd, trainVars,
                 predVars, test, nops, dumpFlag, data, branch, fi, ni, ckptVars>>

\* (b) one vqa.evaluate of the sweep over folders and nops, or its end
RunSweep ==
  /\ pc = "run" /\ branch = "b"
  /\ \/ /\ fi < Len(SweepFolders)
        /\ data' = SweepFolders[fi + 1]
        /\ calls' = Append(calls, Call("evaluate", Minival, data',
                                       SweepNopsFirst + ni,
                                       Join(output, "yn_val_predict.json")))
        /\ IF SweepNopsFirst + ni + 1 < SweepNopsStop
             THEN ni' = ni + 1 /\ fi' = fi
             ELSE ni' = 0 /\ fi' = fi + 1
        /\ pc' = pc
     \/ /\ fi >= Len(SweepFolders)
        /\ pc' = "done"
        /\ UNCHANGED <<data, calls, fi, ni>>
  /\ UNCHANGED <<err, output, training, params, fs, lastFwd, trainVars,
                 predVars, test, nops, dumpFlag, branch, ckptVars>>

\* (c) one vqa.evaluate of the loop over the folder variants, or its end
RunVariants ==
  /\ pc = "run" /\ branch = "c"
  /\ \/ /\ fi < Len(VariantFolders)
        /\ data' = VariantFolders[fi + 1]
        /\ calls' = Append(calls, Call("evaluate", Minival, data', nops,
                                       Join(output, "yn_val_predict.json")))
        /\ fi' = fi + 1
        /\ pc' = pc
     \/ /\ fi >= Len(VariantFolders)
        /\ pc' = "done"
        /\ UNCHANGED <<data, calls, fi>>
  /\ UNCHANGED <<err, output, training, params, fs, lastFwd, trainVars,
                 predVars, test, nops, dumpFlag, branch, ni, ckptVars>>

\* (d) vqa.predict on minival, dumped under data/vqa/<args.data>
RunDump ==
  /\ pc = "run" /\ branch = "d"
  /\ calls' = Append(calls, Call("predict", Minival, data, nops,
                                 Join("data/vqa/" \o data, "yn_val_predict.json")))
  /\ pc' = "done"
  /\ UNCHANGED <<err, output, training, params, fs, lastFwd, trainVars,
                 predVars, test, nops, dumpFlag, data, branch, fi, ni, ckptVars>>

\* else: assert False, "No such test option for %s" % args.test
RunNone ==
  /\ pc = "run" /\ branch = "assert"
  /\ Crash("AssertionError")
  /\ UNCHANGED <<output, training, params, fs, lastFwd, trainVars, predVars,
                 mainVars, ckptVars>>

Selectors ==
  {Test, Val, Minival, Test \o Val, Val \o Test, <<"t", "r", "a", "i", "n">>,
   <<"t", "e", "s">>, <<>>}

\* the entry point with args.test set: any selector, nops and dump flag
InitMain ==
  /\ pc = "main" /\ err = None
  /\ output = "snap"
  /\ training = TRUE
  /\ params = 0
  /\ fs = EmptyMap
  /\ lastFwd = [kind |-> None, mode |-> TRUE]
  /\ caller = None /\ ploader = <<>> /\ dump = None
  /\ quesid2ans = EmptyMap /\ seenLogits = EmptyMap /\ pret = EmptyMap
  /\ bi = 0 /\ num_batches = 0 /\ dumped = {}
  /\ test \in Selectors
  /\ nops \in 0..MaxNops
  /\ dumpFlag \in BOOLEAN
  /\ data \in {"orig", "comma"}
  /\ branch = None /\ calls = <<>> /\ fi = 0 /\ ni = 0
  /\ TrainIdle /\ CkptIdle

NextMain ==
  \/ Dispatch
  \/ RunTest
  \/ RunSweep
  \/ RunVariants
  \/ RunDump
  \/ RunNone

SpecMain == InitMain /\ [][NextMain]_vars

HasTest == Contains(Test, test)
HasVal == Contains(Val, test)

\* C6 as stated: the "No such test option" assertion is raised only for a
\* selector that contains neither 'test' nor 'val'.
C6_AssertOnlyOnUnknownSelector ==
  branch = "assert" => ~HasTest /\ ~HasVal

CallsOf(fn, d) ==
  \A k \in 1..Len(calls) : calls[k].fn = fn /\ calls[k].dump = d

\* C6 amended: the branches are tried in the order (a), (b), (c), (d) and
\* exactly one runs; the assertion is raised exactly when none of the four
\* conditions holds: the selector contains neither 'test' nor 'val', or it
\* contains 'val' and not 'test' with dump unset and nops below 1.
C6_BranchOrderAndAssert ==
  pc # "main" =>
    /\ HasTest => branch = "a"
    /\ ~HasTest /\ HasVal /\ ~dumpFlag /\ nops > 1 => branch = "b"
    /\ ~HasTest /\ HasVal /\ ~dumpFlag /\ nops = 1 => branch = "c"
    /\ ~HasTest /\ HasVal /\ dumpFlag => branch = "d"
    /\ branch = "assert" <=> ~HasTest /\ (~HasVal \/ (~dumpFlag /\ nops < 1))
    /\ branch = "assert" => calls = <<>> /\ pc \in {"run", "crashed"}
    /\ pc = "crashed" => branch = "assert"
    /\ pc = "done" =>
         \/ branch = "a" /\ Len(calls) = 1
            /\ CallsOf("predict", "snap/test_predict.json")
         \/ branch = "b"
            /\ Len(calls) = Len(SweepFolders) * (SweepNopsStop - SweepNopsFirst)
            /\ CallsOf("evaluate", "snap/yn_val_predict.json")
         \/ branch = "c" /\ Len(calls) = Len(VariantFolders)
            /\ CallsOf("evaluate", "snap/yn_val_predict.json")
         \/ branch = "d" /\ Len(calls) = 1
            /\ \E f \in {"orig", "comma"} :
                 CallsOf("predict", "data/vqa/" \o f \o "/yn_val_predict.json")

\* a selector with both 'test' and 'val' and a sweep configuration ran (a)
C6_Witness ==
  /\ pc = "done" /\ test = Val \o Test /\ nops > 1 /\ ~dumpFlag
  /\ branch = "a"

\* a selector with 'val' fell through to the assertion
C6_WitnessFallThrough ==
  /\ pc = "crashed" /\ err = "AssertionError"
  /\ test = Minival /\ nops = 0 /\ ~dumpFlag

====
